---- MODULE Spec2Model ----
(***************************************************************************)
(* Model of meow.py: the fenced code block extractor, the command         *)
(* registry and the chat session loop of MeowChat.                         *)
(*                                                                         *)
(* Texts are TLA+ strings, handled character by character with Len,       *)
(* SubSeq and \o.  A string literal of this language cannot hold a grave  *)
(* accent, so the character is written "^" throughout: Fence stands for   *)
(* the three grave accents of the source.                                  *)
(***************************************************************************)
EXTENDS Integers, Sequences, FiniteSets, TLC

VARIABLES
    pc,                 \* position of chat(): "awaiting", "streaming", "exited"
    history,            \* self.history
    model,              \* self.model
    stream,             \* the chunks of the response being streamed, <<>> if none
    received,           \* how many of them chat() has consumed
    aggregated_result,  \* chat()'s local buffer, "" outside an iteration
    console,            \* what the console or the live region printed last
    clipboard,          \* the value of the system clipboard
    request,            \* model and messages of the last completion request
    raised,             \* the exception the last step raised, "none" if none
    s,                  \* the text given to extract_code_blocks
    output,             \* the list extract_code_blocks returned
    doc,                \* the fenced structure the text s was written from
    xpc                 \* "input" before extract_code_blocks ran, "done" after,
                        \* "idle" in a session

vars == <<pc, history, model, stream, received, aggregated_result, console,
          clipboard, request, raised, s, output, doc, xpc>>

sessionVars == <<pc, history, model, stream, received, aggregated_result,
                 console, clipboard, request, raised>>

extractVars == <<s, output, doc, xpc>>

-----------------------------------------------------------------------------
(* Bounds *)

\* segments (text lines or closed blocks) of a text
MaxSegs == 2

\* body lines of one block
MaxBody == 2

\* messages in the conversation
MaxHistory == 3


-----------------------------------------------------------------------------
(* Text helpers: what str.split, str.startswith and str.strip do *)

Backtick == "^"

Fence == Backtick \o Backtick \o Backtick

Newline == "\n"

Escape == "\\"

CharAt(str, i) == SubSeq(str, i, i)

RECURSIVE split(_, _)
split(str, sep) ==
    IF \E i \in 1..Len(str) : CharAt(str, i) = sep
    THEN LET i == CHOOSE k \in 1..Len(str) :
                      /\ CharAt(str, k) = sep
                      /\ \A j \in 1..(k - 1) : CharAt(str, j) # sep
         IN  <<SubSeq(str, 1, i - 1)>> \o split(SubSeq(str, i + 1, Len(str)), sep)
    ELSE <<str>>

startswith(str, prefix) ==
    /\ Len(str) >= Len(prefix)
    /\ SubSeq(str, 1, Len(prefix)) = prefix

Whitespace == {" ", "\n", "\t"}

RECURSIVE lstrip(_)
lstrip(str) ==
    IF Len(str) > 0 /\ CharAt(str, 1) \in Whitespace
    THEN lstrip(SubSeq(str, 2, Len(str)))
    ELSE str

RECURSIVE rstrip(_)
rstrip(str) ==
    IF Len(str) > 0 /\ CharAt(str, Len(str)) \in Whitespace
    THEN rstrip(SubSeq(str, 1, Len(str) - 1))
    ELSE str

strip(str) == rstrip(lstrip(str))

-----------------------------------------------------------------------------
(* extract_code_blocks.  current is <<>> for None and <<text>> otherwise. *)

\* A scan that closes a block on any line starting with the fence
RECURSIVE extract_loop_prefix_close(_, _, _)
extract_loop_prefix_close(lines, out, current) ==
    IF lines = <<>> THEN out
    ELSE LET line == Head(lines)
             rest == Tail(lines)
         IN  IF current = <<>>
             THEN IF startswith(line, Fence)
                  THEN extract_loop_prefix_close(rest, out, <<"">>)
                  ELSE extract_loop_prefix_close(rest, out, current)
             ELSE IF startswith(line, Fence)
                  THEN extract_loop_prefix_close(rest, Append(out, current[1]), <<>>)
                  ELSE extract_loop_prefix_close(rest, out,
                                                 <<current[1] \o line \o Newline>>)

\* A scan that emits the block still open at the end of the text
RECURSIVE extract_loop_flush(_, _, _)
extract_loop_flush(lines, out, current) ==
    IF lines = <<>>
    THEN IF current = <<>> THEN out ELSE Append(out, current[1])
    ELSE LET line == Head(lines)
             rest == Tail(lines)
         IN  IF current = <<>>
             THEN IF startswith(line, Fence)
                  THEN extract_loop_flush(rest, out, <<"">>)
                  ELSE extract_loop_flush(rest, out, current)
             ELSE IF line = Fence
                  THEN extract_loop_flush(rest, Append(out, current[1]), <<>>)
                  ELSE extract_loop_flush(rest, out, <<current[1] \o line \o Newline>>)

\* A scan that opens a block on the bare fence only
RECURSIVE extract_loop_exact_open(_, _, _)
extract_loop_exact_open(lines, out, current) ==
    IF lines = <<>> THEN out
    ELSE LET line == Head(lines)
             rest == Tail(lines)
         IN  IF current = <<>>
             THEN IF line = Fence
                  THEN extract_loop_exact_open(rest, out, <<"">>)
                  ELSE extract_loop_exact_open(rest, out, current)
             ELSE IF line = Fence
                  THEN extract_loop_exact_open(rest, Append(out, current[1]), <<>>)
                  ELSE extract_loop_exact_open(rest, out,
                                               <<current[1] \o line \o Newline>>)

RECURSIVE extract_loop(_, _, _)
extract_loop(lines, out, current) ==
    IF lines = <<>> THEN out
    ELSE LET line == Head(lines)
             rest == Tail(lines)
         IN  IF current = <<>>
             THEN IF startswith(line, Fence)
                  THEN extract_loop(rest, out, <<"">>)
                  ELSE extract_loop(rest, out, current)
             ELSE IF line = Fence
                  THEN extract_loop(rest, Append(out, current[1]), <<>>)
                  ELSE extract_loop(rest, out, <<current[1] \o line \o Newline>>)

extract_code_blocks(str) == extract_loop(split(str, Newline), <<>>, <<>>)

-----------------------------------------------------------------------------
(* Input texts of the extractor, written from a fenced structure *)

\* Lines that open no block: they do not start with the fence
TextLines == {"", " " \o Fence}

\* Opening fences, bare or with a language tag
OpenLines == {Fence, Fence \o "py"}

\* Lines of a body: anything but the bare fence
BodyLines == {"a", Fence \o "py"}

BodiesUpTo(n) == UNION {[1..k -> BodyLines] : k \in 0..n}

Segments ==
    {[kind |-> "text", line |-> l, body |-> <<>>] : l \in TextLines}
    \cup {[kind |-> "block", line |-> l, body |-> b] :
              l \in OpenLines, b \in BodiesUpTo(MaxBody)}

\* What may follow the last segment: nothing, or a block that is never closed
OpenTails ==
    {<<>>} \cup {<<[kind |-> "open", line |-> l, body |-> b]>> :
                     l \in OpenLines, b \in {<<>>, <<"a">>}}

Docs ==
    {[segs |-> sg, tail |-> t] :
         sg \in UNION {[1..n -> Segments] : n \in 0..MaxSegs}, t \in OpenTails}

SegLines(seg) ==
    CASE seg.kind = "text" -> <<seg.line>>
      [] seg.kind = "block" -> <<seg.line>> \o seg.body \o <<Fence>>
      [] seg.kind = "open" -> <<seg.line>> \o seg.body

RECURSIVE DocLines(_)
DocLines(segs) ==
    IF segs = <<>> THEN <<>> ELSE SegLines(Head(segs)) \o DocLines(Tail(segs))

RECURSIVE join(_, _)
join(sep, lines) ==
    IF lines = <<>> THEN ""
    ELSE IF Len(lines) = 1 THEN lines[1]
    ELSE lines[1] \o sep \o join(sep, Tail(lines))

Render(d) == join(Newline, DocLines(d.segs \o d.tail))

RECURSIVE BodyText(_)
BodyText(body) ==
    IF body = <<>> THEN "" ELSE Head(body) \o Newline \o BodyText(Tail(body))

RECURSIVE ClosedBodies(_)
ClosedBodies(segs) ==
    IF segs = <<>> THEN <<>>
    ELSE IF Head(segs).kind = "block"
         THEN <<BodyText(Head(segs).body)>> \o ClosedBodies(Tail(segs))
         ELSE ClosedBodies(Tail(segs))

NumBlocks(segs) == Cardinality({i \in 1..Len(segs) : segs[i].kind = "block"})

-----------------------------------------------------------------------------
(* The session: constants and the conversation store *)

MODELS == <<"gpt-4o", "gpt-4-turbo">>

\* The values datetime.now().strftime("%Y-%m-%d") takes during a session
Dates == {"2024-05-01", "2024-05-02"}

get_system_prompt(today) ==
    "You are an AI assistant called Meow." \o Newline
        \o "The current date is: " \o today \o Newline

\* reset_history leaving the conversation empty
reset_history_empty(today) == <<>>

reset_history(today) ==
    <<[role |-> "system", content |-> get_system_prompt(today)]>>

Last(seq) == seq[Len(seq)]

-----------------------------------------------------------------------------
(* The command registry *)

ClassMethods ==
    <<"__init__", "get_system_prompt", "reset_history", "command_model",
      "command_copy", "command_code_copy", "command_dump", "command_reset",
      "command_quit", "get_commands", "run_command", "command_help",
      "_get_prompt_toolkit_key_bindings", "chat">>

\* A shortcut made of the first letter of the first word only
Initials_first_word(parts) ==
    IF parts = <<>> THEN "" ELSE CharAt(Head(parts), 1)

RECURSIVE Initials(_)
Initials(parts) ==
    IF parts = <<>> THEN "" ELSE CharAt(Head(parts), 1) \o Initials(Tail(parts))

RECURSIVE get_commands_from(_, _)
get_commands_from(methods, with_long) ==
    IF methods = <<>> THEN <<>>
    ELSE LET method == Head(methods)
             parts == Tail(split(method, "_"))
             shortcut == Initials(parts)
             long == join("_", parts)
             rest == get_commands_from(Tail(methods), with_long)
         IN  IF startswith(method, "command_")
             THEN <<[trigger |-> shortcut, fn |-> method]>>
                      \o (IF with_long
                          THEN <<[trigger |-> long, fn |-> method]>>
                          ELSE <<>>)
                      \o rest
             ELSE rest

get_commands(with_long) == get_commands_from(ClassMethods, with_long)

CommandTable == get_commands(TRUE)

HelpTable == get_commands(FALSE)

\* A lookup that trims the command before matching it
Lookup_stripped(command) ==
    LET cmds == CommandTable
        hits == {i \in 1..Len(cmds) : cmds[i].trigger = strip(command)}
    IN  IF hits = {} THEN ""
        ELSE cmds[CHOOSE i \in hits : \A j \in hits : i <= j].fn

\* The method run_command calls for the command, "" when no trigger matches
Lookup(command) ==
    LET cmds == CommandTable
        hits == {i \in 1..Len(cmds) : cmds[i].trigger = command}
    IN  IF hits = {} THEN ""
        ELSE cmds[CHOOSE i \in hits : \A j \in hits : i <= j].fn

Index0(seq, x) ==
    (CHOOSE i \in 1..Len(seq) :
         /\ seq[i] = x
         /\ \A j \in 1..(i - 1) : seq[j] # x) - 1

\* A switch that stops at the last model instead of wrapping around
NextModel_clamped(m) ==
    IF Index0(MODELS, m) + 1 < Len(MODELS)
    THEN MODELS[Index0(MODELS, m) + 2]
    ELSE m

NextModel(m) == MODELS[((Index0(MODELS, m) + 1) % Len(MODELS)) + 1]

command_model ==
    /\ model' = NextModel(model)
    /\ raised' = "none"
    /\ UNCHANGED <<history, console, clipboard>>

\* A copy that refuses a last message that is not a response
command_copy_responses_only ==
    /\ IF Last(history).role = "assistant"
       THEN /\ clipboard' = Last(history).content
            /\ console' = <<"print", "Copied last response to clipboard">>
       ELSE /\ console' = <<"print", "No response to copy">>
            /\ UNCHANGED clipboard
    /\ raised' = "none"
    /\ UNCHANGED <<history, model>>

command_copy ==
    /\ clipboard' = Last(history).content
    /\ console' = <<"print", "Copied last response to clipboard">>
    /\ raised' = "none"
    /\ UNCHANGED <<history, model>>

\* A code copy that takes the first extracted block
command_code_copy_first ==
    LET code_blocks == extract_code_blocks(Last(history).content)
    IN  /\ raised' = "none"
        /\ UNCHANGED <<history, model>>
        /\ \/ /\ console' = <<"print", "No code blocks found in last message">>
              /\ code_blocks = <<>>
              /\ UNCHANGED clipboard
           \/ /\ console' = <<"print", "Copied last code block to clipboard">>
              /\ code_blocks # <<>>
              /\ clipboard' = Head(code_blocks)

\* The two branches of the method, each under its test of code_blocks
command_code_copy ==
    LET code_blocks == extract_code_blocks(Last(history).content)
    IN  /\ raised' = "none"
        /\ UNCHANGED <<history, model>>
        /\ \/ /\ console' = <<"print", "No code blocks found in last message">>
              /\ code_blocks = <<>>
              /\ UNCHANGED clipboard
           \/ /\ console' = <<"print", "Copied last code block to clipboard">>
              /\ code_blocks # <<>>
              /\ clipboard' = Last(code_blocks)

DumpText(message) ==
    "<" \o message.role \o ">" \o Newline \o message.content \o Newline
        \o "</" \o message.role \o ">"

command_dump ==
    /\ console' = <<"print", DumpText(Last(history))>>
    /\ raised' = "none"
    /\ UNCHANGED <<history, model, clipboard>>

\* A reset that also goes back to the first model of the list
command_reset_first_model ==
    /\ console' = <<"rule", "Reset">>
    /\ \E today \in Dates : history' = reset_history(today)
    /\ model' = MODELS[1]
    /\ raised' = "none"
    /\ UNCHANGED clipboard

\* A reset that prints the rule and forgets the conversation store
command_reset_rule_only ==
    /\ console' = <<"rule", "Reset">>
    /\ raised' = "none"
    /\ UNCHANGED <<history, model, clipboard>>

command_reset ==
    /\ console' = <<"rule", "Reset">>
    /\ \E today \in Dates : history' = reset_history(today)
    /\ raised' = "none"
    /\ UNCHANGED <<model, clipboard>>

command_quit ==
    /\ raised' = "SystemExit"
    /\ UNCHANGED <<history, model, console, clipboard>>

command_help ==
    /\ console' = <<"print", Escape \o Last(HelpTable).trigger>>
    /\ raised' = "none"
    /\ UNCHANGED <<history, model, clipboard>>

unknown_command(command) ==
    /\ console' = <<"print", "Unknown command: " \o command>>
    /\ raised' = "none"
    /\ UNCHANGED <<history, model, clipboard>>

run_command(command) ==
    LET fn == Lookup(command)
    IN  CASE fn = "command_model" -> command_model
          [] fn = "command_copy" -> command_copy
          [] fn = "command_code_copy" -> command_code_copy
          [] fn = "command_dump" -> command_dump
          [] fn = "command_reset" -> command_reset
          [] fn = "command_quit" -> command_quit
          [] fn = "command_help" -> command_help
          [] OTHER -> unknown_command(command)

-----------------------------------------------------------------------------
(* chat(): the session loop *)

RawInputs ==
    {"", " ", "hi", " hi" \o Newline,
     "\\m", "\\model", "\\c", "\\copy", "\\cc", "\\code_copy", "\\d", "\\dump",
     "\\r", "\\reset", "\\q", "\\quit", "\\h", "\\help",
     "\\", "\\x", "\\ h", " \\m "}

\* Fragments of a response: FragmentA then FragmentB is a text with an empty
\* block and a tagged block; FragmentB then FragmentA closes one empty block
\* and leaves the tagged one open
FragmentA ==
    Fence \o Newline \o Fence \o Newline
        \o Fence \o "py" \o Newline \o "a" \o Newline

FragmentB == Fence

\* The responses the transport may stream: the delta.content of each chunk in
\* arrival order, <<>> for None and <<text>> for a text
Streams ==
    {<<>>,
     << <<FragmentA>>, <<>>, <<FragmentB>> >>,
     << <<"">>, <<FragmentB>>, <<FragmentA>> >>}

Truthy(delta_content) == delta_content # <<>> /\ delta_content[1] # ""

\* A loop without the except clause: the interrupt ends chat()
except_KeyboardInterrupt_missing ==
    /\ pc' = "exited"
    /\ UNCHANGED console

\* What leaves the try block of the loop: only KeyboardInterrupt is caught
except_KeyboardInterrupt ==
    /\ console' = <<"print", "Interrupted">>
    /\ pc' = "awaiting"

\* A loop that catches whatever leaves the try block and prompts again
Propagate_caught == pc' = "awaiting"

Propagate == pc' = "exited"

SessionInit ==
    /\ pc = "awaiting"
    /\ model \in {MODELS[i] : i \in 1..Len(MODELS)}
    /\ \E today \in Dates : history = reset_history(today)
    /\ stream = <<>>
    /\ received = 0
    /\ aggregated_result = ""
    /\ console = <<"print", "Welcome to Meow">>
    /\ clipboard = ""
    /\ request = <<>>
    /\ raised = "none"

\* A loop that sends the transport the new user message alone
chat_input_sends_prompt_only(raw) ==
    LET user_message == strip(raw)
    IN  /\ pc = "awaiting"
        /\ IF user_message = ""
           THEN /\ raised' = "IndexError"
                /\ Propagate
                /\ UNCHANGED <<history, model, console, clipboard, stream,
                               received, aggregated_result, request>>
           ELSE IF CharAt(user_message, 1) = Escape
           THEN /\ run_command(SubSeq(user_message, 2, Len(user_message)))
                /\ IF raised' = "none" THEN pc' = "awaiting" ELSE Propagate
                /\ UNCHANGED <<stream, received, aggregated_result, request>>
           ELSE /\ Len(history) < MaxHistory
                /\ history' = Append(history, [role |-> "user", content |-> user_message])
                /\ request' = <<[model |-> model, messages |-> <<Last(history')>>]>>
                /\ \E response \in Streams : stream' = response
                /\ received' = 0
                /\ aggregated_result' = ""
                /\ console' = <<"live", "">>
                /\ pc' = "streaming"
                /\ raised' = "none"
                /\ UNCHANGED <<model, clipboard>>
        /\ UNCHANGED extractVars

\* One submitted input: an IndexError on the empty text, a command, or a
\* prompt that opens the stream
chat_input(raw) ==
    LET user_message == strip(raw)
    IN  /\ pc = "awaiting"
        /\ IF user_message = ""
           THEN /\ raised' = "IndexError"
                /\ Propagate
                /\ UNCHANGED <<history, model, console, clipboard, stream,
                               received, aggregated_result, request>>
           ELSE IF CharAt(user_message, 1) = Escape
           THEN /\ run_command(SubSeq(user_message, 2, Len(user_message)))
                /\ IF raised' = "none" THEN pc' = "awaiting" ELSE Propagate
                /\ UNCHANGED <<stream, received, aggregated_result, request>>
           ELSE /\ Len(history) < MaxHistory
                /\ history' = Append(history, [role |-> "user", content |-> user_message])
                /\ request' = <<[model |-> model, messages |-> history']>>
                /\ \E response \in Streams : stream' = response
                /\ received' = 0
                /\ aggregated_result' = ""
                /\ console' = <<"live", "">>
                /\ pc' = "streaming"
                /\ raised' = "none"
                /\ UNCHANGED <<model, clipboard>>
        /\ UNCHANGED extractVars

\* A stream that keeps its assistant message in the conversation and grows
\* it with each fragment
chat_chunk_in_place ==
    /\ pc = "streaming"
    /\ received < Len(stream)
    /\ received' = received + 1
    /\ LET delta_content == stream[received + 1]
       IN  IF Truthy(delta_content)
           THEN /\ aggregated_result' = aggregated_result \o delta_content[1]
                /\ console' = <<"live", aggregated_result'>>
                /\ history' =
                       IF Last(history).role = "assistant"
                       THEN [history EXCEPT ![Len(history)].content = aggregated_result']
                       ELSE Append(history, [role |-> "assistant",
                                             content |-> aggregated_result'])
           ELSE UNCHANGED <<aggregated_result, console, history>>
    /\ raised' = "none"
    /\ UNCHANGED <<pc, model, stream, clipboard, request>>
    /\ UNCHANGED extractVars

\* A buffer that puts each fragment in front of the earlier ones
chat_chunk_prepend ==
    /\ pc = "streaming"
    /\ received < Len(stream)
    /\ received' = received + 1
    /\ LET delta_content == stream[received + 1]
       IN  IF Truthy(delta_content)
           THEN /\ aggregated_result' = delta_content[1] \o aggregated_result
                /\ console' = <<"live", aggregated_result'>>
           ELSE UNCHANGED <<aggregated_result, console>>
    /\ raised' = "none"
    /\ UNCHANGED <<pc, history, model, stream, clipboard, request>>
    /\ UNCHANGED extractVars

\* One chunk of the stream arrives
chat_chunk ==
    /\ pc = "streaming"
    /\ received < Len(stream)
    /\ received' = received + 1
    /\ LET delta_content == stream[received + 1]
       IN  IF Truthy(delta_content)
           THEN /\ aggregated_result' = aggregated_result \o delta_content[1]
                /\ console' = <<"live", aggregated_result'>>
           ELSE UNCHANGED <<aggregated_result, console>>
    /\ raised' = "none"
    /\ UNCHANGED <<pc, history, model, stream, clipboard, request>>
    /\ UNCHANGED extractVars

\* A stream end that puts the response in the place of the prompt
chat_stream_end_replaces_prompt ==
    /\ pc = "streaming"
    /\ received = Len(stream)
    /\ history' = [history EXCEPT ![Len(history)] =
                       [role |-> "assistant", content |-> aggregated_result]]
    /\ console' = <<"print", "">>
    /\ pc' = "awaiting"
    /\ raised' = "none"
    /\ stream' = <<>>
    /\ received' = 0
    /\ UNCHANGED <<model, clipboard, request>>
    /\ aggregated_result' = ""
    /\ UNCHANGED extractVars

\* The stream is exhausted
chat_stream_end ==
    /\ pc = "streaming"
    /\ received = Len(stream)
    /\ Len(history) < MaxHistory
    /\ history' = Append(history, [role |-> "assistant", content |-> aggregated_result])
    /\ console' = <<"print", "">>
    /\ pc' = "awaiting"
    /\ raised' = "none"
    /\ stream' = <<>>
    /\ received' = 0
    /\ UNCHANGED <<model, clipboard, request>>
    /\ aggregated_result' = ""
    /\ UNCHANGED extractVars

\* A handler that keeps what was streamed so far as an assistant message
KeyboardInterrupt_keeps_partial ==
    /\ pc \in {"awaiting", "streaming"}
    /\ raised' = "KeyboardInterrupt"
    /\ except_KeyboardInterrupt
    /\ IF pc = "streaming" /\ aggregated_result # ""
       THEN history' = Append(history, [role |-> "assistant",
                                        content |-> aggregated_result])
       ELSE UNCHANGED history
    /\ stream' = <<>>
    /\ received' = 0
    /\ UNCHANGED <<model, clipboard, request>>
    /\ aggregated_result' = ""
    /\ UNCHANGED extractVars

\* The user's interrupt, at the prompt or while the stream is consumed
KeyboardInterrupt ==
    /\ pc \in {"awaiting", "streaming"}
    /\ raised' = "KeyboardInterrupt"
    /\ except_KeyboardInterrupt
    /\ stream' = <<>>
    /\ received' = 0
    /\ UNCHANGED <<history, model, clipboard, request>>
    /\ aggregated_result' = ""
    /\ UNCHANGED extractVars

\* A loop that reports the failure of the transport and prompts again
TransportError_caught ==
    /\ pc = "streaming"
    /\ raised' = "APIError"
    /\ console' = <<"print", "Error">>
    /\ pc' = "awaiting"
    /\ stream' = <<>>
    /\ received' = 0
    /\ UNCHANGED <<history, model, clipboard, request>>
    /\ aggregated_result' = ""
    /\ UNCHANGED extractVars

\* The transport fails while the stream is consumed
TransportError ==
    /\ pc = "streaming"
    /\ raised' = "APIError"
    /\ Propagate
    /\ stream' = <<>>
    /\ received' = 0
    /\ UNCHANGED <<history, model, console, clipboard, request>>
    /\ aggregated_result' = ""
    /\ UNCHANGED extractVars

Init ==
    /\ SessionInit
    /\ doc = [segs |-> <<>>, tail |-> <<>>]
    /\ s = ""
    /\ output = <<>>
    /\ xpc = "idle"

Next ==
    \/ \E raw \in RawInputs : chat_input(raw)
    \/ chat_chunk
    \/ chat_stream_end
    \/ KeyboardInterrupt
    \/ TransportError

Spec == Init /\ [][Next]_vars

-----------------------------------------------------------------------------
(* Properties of the session *)

IsCommandInput(raw) == strip(raw) # "" /\ CharAt(strip(raw), 1) = Escape

IsPromptInput(raw) == strip(raw) # "" /\ CharAt(strip(raw), 1) # Escape

CommandOf(raw) == SubSeq(strip(raw), 2, Len(strip(raw)))

RegisteredTriggers ==
    {"m", "model", "c", "copy", "cc", "code_copy", "d", "dump",
     "r", "reset", "q", "quit", "h", "help"}

EmptyInputs == {raw \in RawInputs : strip(raw) = ""}

PromptInputs == {raw \in RawInputs : IsPromptInput(raw)}

UnknownInputs ==
    {raw \in RawInputs : IsCommandInput(raw) /\ CommandOf(raw) \notin RegisteredTriggers}

ResetInputs ==
    {raw \in RawInputs : IsCommandInput(raw) /\ CommandOf(raw) \in {"r", "reset"}}

ModelInputs ==
    {raw \in RawInputs : IsCommandInput(raw) /\ CommandOf(raw) \in {"m", "model"}}

ModelSet == {MODELS[i] : i \in 1..Len(MODELS)}

Interrupted == <<"print", "Interrupted">>

RECURSIVE ConcatNonEmpty(_)
ConcatNonEmpty(deltas) ==
    IF deltas = <<>> THEN ""
    ELSE (IF Head(deltas) = <<>> THEN "" ELSE Head(deltas)[1])
             \o ConcatNonEmpty(Tail(deltas))

RECURSIVE SwitchTimes(_, _)
SwitchTimes(n, m) == IF n = 0 THEN m ELSE SwitchTimes(n - 1, NextModel(m))

\* C1: an input that is empty after trimming is a no-op iteration: the
\* session stays in awaiting-input without failing, and the conversation and
\* the selected model are unchanged.
C1_EmptyInputIsNoOp ==
    [][\A raw \in EmptyInputs :
           chat_input(raw) =>
               /\ pc' = "awaiting"
               /\ raised' = "none"
               /\ history' = history
               /\ model' = model]_vars

\* C2: an interrupt never ends the session: after it the session is in
\* awaiting-input and the interrupted notice is what was printed last.
C2_InterruptAbortsIterationOnly ==
    raised = "KeyboardInterrupt" => (pc = "awaiting" /\ console = Interrupted)

C2_Witness ==
    /\ raised = "KeyboardInterrupt"
    /\ pc = "awaiting"
    /\ console = Interrupted
    /\ Len(history) = 3
    /\ Last(history).role = "assistant"

\* C3: an interrupt during streaming-response appends nothing: the prompt
\* appended one user message to the conversation, the fragments leave the
\* conversation alone, and the interrupt leaves it ending in that user message.
C3_InterruptAppendsNoPartial ==
    [][/\ (pc = "awaiting" /\ pc' = "streaming") =>
              /\ Len(history') = Len(history) + 1
              /\ SubSeq(history', 1, Len(history)) = history
              /\ Last(history').role = "user"
       /\ (pc = "streaming" /\ pc' = "streaming") => history' = history
       /\ (pc = "streaming" /\ raised' = "KeyboardInterrupt") =>
              /\ history' = history
              /\ Last(history').role = "user"]_vars

C3_Witness ==
    /\ raised = "KeyboardInterrupt"
    /\ pc = "awaiting"
    /\ console = Interrupted
    /\ Last(history).role = "user"
    /\ Last(history).content = "hi"
    /\ request # <<>>
    /\ request[1].messages = history

\* C4: a non-empty prompt without the escape character appends one user
\* message holding the trimmed text and enters streaming-response; a stream
\* that completes appends one assistant message holding the non-empty
\* fragments concatenated in arrival order, and returns to awaiting-input.
C4_PromptThenAssistant ==
    [][/\ \A raw \in PromptInputs :
              chat_input(raw) =>
                  /\ history' = Append(history, [role |-> "user",
                                                 content |-> strip(raw)])
                  /\ pc' = "streaming"
       /\ (pc = "streaming" /\ (history' # history \/ raised' = "none")) =>
              \/ /\ received < Len(stream)
                 /\ pc' = "streaming"
                 /\ history' = history
              \/ /\ received = Len(stream)
                 /\ pc' = "awaiting"
                 /\ history' = Append(history, [role |-> "assistant",
                                                content |-> ConcatNonEmpty(stream)])]_vars

C4_Witness ==
    /\ pc = "awaiting"
    /\ raised = "none"
    /\ console = <<"print", "">>
    /\ Len(history) = 3
    /\ history[2] = [role |-> "user", content |-> "hi"]
    /\ history[3] = [role |-> "assistant", content |-> FragmentA \o FragmentB]

\* C5: every string typed after the escape character that is not a
\* registered trigger is reported as an unknown command; the session stays in
\* awaiting-input and the conversation and the model are unchanged.
C5_DispatchIsTotal ==
    [][\A raw \in UnknownInputs :
           chat_input(raw) =>
               /\ console' = <<"print", "Unknown command: " \o CommandOf(raw)>>
               /\ pc' = "awaiting"
               /\ raised' = "none"
               /\ history' = history
               /\ model' = model]_vars

C5_Witness ==
    /\ pc = "awaiting"
    /\ raised = "none"
    /\ console = <<"print", "Unknown command:  h">>
    /\ Len(history) = 3

\* C6: in every reachable state the conversation is non-empty and its first
\* element has role system and holds the system prompt.
C6_SystemPromptFirst ==
    /\ Len(history) >= 1
    /\ history[1].role = "system"
    /\ \E today \in Dates : history[1].content = get_system_prompt(today)

C6_Witness ==
    /\ Len(history) = 3
    /\ Last(history).role = "assistant"
    /\ raised = "KeyboardInterrupt"
    /\ clipboard = "a" \o Newline

\* C7: the reset command, from any conversation, leaves a conversation of
\* exactly one message with role system, and so does running it again.
C7_ResetYieldsOneSystemMessage ==
    [][\A raw \in ResetInputs :
           chat_input(raw) =>
               /\ Len(history') = 1
               /\ history'[1].role = "system"
               /\ console' = <<"rule", "Reset">>
               /\ pc' = "awaiting"]_vars

C7_Witness ==
    /\ console = <<"rule", "Reset">>
    /\ Len(history) = 1
    /\ history[1].role = "system"
    /\ clipboard = FragmentA \o FragmentB

\* C8: the switch-model command moves the selected model from index i of the
\* model list to index (i+1) mod length, as many switches as the list is long
\* return to the same model, and the selected model is always in the list.
C8_ModelCycles ==
    [][/\ model \in ModelSet
       /\ model' \in ModelSet
       /\ SwitchTimes(Len(MODELS), model') = model'
       /\ \A k \in 1..(Len(MODELS) - 1) : SwitchTimes(k, model') # model'
       /\ \A raw \in ModelInputs :
              chat_input(raw) =>
                  \E i \in 0..(Len(MODELS) - 1) :
                      /\ MODELS[i + 1] = model
                      /\ model' = MODELS[((i + 1) % Len(MODELS)) + 1]]_vars

C8_Witness ==
    /\ pc = "awaiting"
    /\ request # <<>>
    /\ request[1].model = MODELS[Len(MODELS)]
    /\ model = MODELS[1]

CopyInputs ==
    {raw \in RawInputs : IsCommandInput(raw) /\ CommandOf(raw) \in {"c", "copy"}}

CodeCopyInputs ==
    {raw \in RawInputs :
         IsCommandInput(raw) /\ CommandOf(raw) \in {"cc", "code_copy"}}

\* C12: the code-copy command runs the extractor over the last conversation
\* entry: a non-empty result sets the clipboard to the last extracted block,
\* an empty one is reported as no code blocks found and leaves the clipboard
\* alone; either way the conversation is unchanged and the session stays in
\* awaiting-input.
C12_CodeCopyTakesLastBlock ==
    [][\A raw \in CodeCopyInputs :
           chat_input(raw) =>
               LET blocks == extract_code_blocks(history[Len(history)].content)
               IN  /\ blocks # <<>> =>
                          /\ clipboard' = blocks[Len(blocks)]
                          /\ console' = <<"print", "Copied last code block to clipboard">>
                   /\ blocks = <<>> =>
                          /\ clipboard' = clipboard
                          /\ console' = <<"print", "No code blocks found in last message">>
                   /\ history' = history
                   /\ pc' = "awaiting"
                   /\ raised' = "none"]_vars

\* The second of two blocks was copied from a response, then a code copy
\* found no block in the system message a reset left
C12_Witness ==
    /\ console = <<"print", "No code blocks found in last message">>
    /\ clipboard = "a" \o Newline
    /\ Len(history) = 1
    /\ extract_code_blocks(FragmentA \o FragmentB) = <<"", "a" \o Newline>>
    /\ extract_code_blocks(Last(history).content) = <<>>

CommandInputs == {raw \in RawInputs : IsCommandInput(raw)}

QuitInputs ==
    {raw \in RawInputs : IsCommandInput(raw) /\ CommandOf(raw) \in {"q", "quit"}}

OtherCommandInputs == CommandInputs \ QuitInputs

\* C13: an input that starts with the escape character is never appended to
\* the conversation and opens no completion request; after every command but
\* quit the session is in awaiting-input, after quit it has exited with
\* SystemExit, and no step is ever taken from the exited state.
C13_CommandsStayOutOfConversation ==
    [][/\ pc # "exited"
       /\ \/ /\ Len(history') <= Len(history)
             /\ \A i \in 1..Len(history') : ~startswith(history'[i].content, Escape)
             /\ request' = request
             /\ stream' = stream
             /\ pc' = "awaiting"
             /\ raised' = "none"
          \/ \A raw \in OtherCommandInputs : ~chat_input(raw)
       /\ \/ /\ history' = history
             /\ request' = request
             /\ stream' = stream
             /\ pc' = "exited"
             /\ raised' = "SystemExit"
          \/ \A raw \in QuitInputs : ~chat_input(raw)]_vars

\* Quit after a completed exchange: the session has exited and the last
\* request is the one of the exchange
C13_Witness ==
    /\ pc = "exited"
    /\ raised = "SystemExit"
    /\ Len(history) = 3
    /\ Last(history).role = "assistant"
    /\ request # <<>>
    /\ request[1].messages = SubSeq(history, 1, 2)

\* C14: every completion request carries the whole conversation as it is
\* once the user message is appended, in order, from the system message to
\* that user message and with the user messages earlier interrupted streams
\* left, together with the model selected at that moment; no other step
\* sends a request.
C14_RequestCarriesConversation ==
    [][IF pc = "awaiting" /\ pc' = "streaming"
       THEN /\ request' # <<>>
            /\ request'[1].messages = history'
            /\ request'[1].model = model
            /\ model' = model
            /\ Len(history') = Len(history) + 1
            /\ SubSeq(history', 1, Len(history)) = history
            /\ history'[1].role = "system"
            /\ history'[Len(history')].role = "user"
       ELSE request' = request]_vars

\* A request sent after an interrupted stream: it carries both user messages
C14_Witness ==
    /\ pc = "streaming"
    /\ Len(history) = 3
    /\ history[2].role = "user"
    /\ history[3].role = "user"
    /\ request # <<>>
    /\ request[1].messages = history
    /\ request[1].model = MODELS[2]
    /\ received = 1

\* The commands that are neither reset nor quit
FrameInputs == OtherCommandInputs \ ResetInputs

\* C15: messages are immutable once appended: every step leaves the
\* conversation unchanged (help, model, copy, code copy, dump, unknown
\* command, interrupt, fragment), appends one user message (prompt) or one
\* assistant message (stream completion) at the end, or replaces it by a
\* single system message (reset); while a stream is in progress the
\* conversation ends in the user message and holds no entry for the response.
C15_MessagesImmutable ==
    [][/\ \/ history' = history
          \/ /\ Len(history') = Len(history) + 1
             /\ SubSeq(history', 1, Len(history)) = history
             /\ \/ /\ pc = "awaiting"
                   /\ pc' = "streaming"
                   /\ history'[Len(history')].role = "user"
                \/ /\ pc = "streaming"
                   /\ pc' = "awaiting"
                   /\ received = Len(stream)
                   /\ history'[Len(history')].role = "assistant"
          \/ /\ Len(history') = 1
             /\ history'[1].role = "system"
             /\ \E raw \in ResetInputs : chat_input(raw)
       /\ history' = history \/ \A raw \in FrameInputs : ~chat_input(raw)
       /\ raised' = "KeyboardInterrupt" => history' = history
       /\ (pc = "streaming" /\ pc' = "streaming") => history' = history
       /\ pc' = "streaming" =>
              /\ history'[Len(history')].role = "user"
              /\ request'[1].messages = history']_vars

\* All fragments of a response have arrived and the conversation still ends
\* in the prompt
C15_Witness ==
    /\ pc = "streaming"
    /\ received = Len(stream)
    /\ aggregated_result = FragmentA \o FragmentB
    /\ Len(history) = 2
    /\ history[2] = [role |-> "user", content |-> "hi"]

NotModelInputs == RawInputs \ ModelInputs

\* C16: the selected model is changed by the switch-model command only:
\* prompts, fragments, completed and interrupted streams, reset, help, copy,
\* code copy, dump, quit and unknown commands leave it as it is.
C16_OnlySwitchChangesModel ==
    [][/\ model' = model \/ \E raw \in ModelInputs : chat_input(raw)
       /\ model' = model \/ \A raw \in NotModelInputs : ~chat_input(raw)
       /\ pc = "streaming" => model' = model
       /\ raised' = "KeyboardInterrupt" => model' = model]_vars

\* A reset after a switch that followed a request: the model is still the
\* one the switch selected
C16_Witness ==
    /\ console = <<"rule", "Reset">>
    /\ Len(history) = 1
    /\ request # <<>>
    /\ request[1].model = MODELS[1]
    /\ model = MODELS[2]
    /\ clipboard = "hi"

\* C17: a failure of the transport during streaming-response is not caught
\* and not retried: the step that raises it ends the session, sends no new
\* request and appends no assistant message, so the conversation still ends
\* in the user message of the failed request; no step follows it.
C17_TransportFailureEndsSession ==
    [][/\ raised' = "APIError" =>
              /\ pc = "streaming"
              /\ pc' = "exited"
              /\ history' = history
              /\ history'[Len(history')].role = "user"
              /\ request' = request
              /\ request'[1].messages = history'
       /\ raised # "APIError"]_vars

\* The transport failed after the first fragment was shown
C17_Witness ==
    /\ raised = "APIError"
    /\ pc = "exited"
    /\ console = <<"live", FragmentA>>
    /\ Len(history) = 2
    /\ Last(history) = [role |-> "user", content |-> "hi"]

CommandMethods ==
    {"command_model", "command_copy", "command_code_copy", "command_dump",
     "command_reset", "command_quit", "command_help"}

\* What running the method named fn does
ActionOf(fn) ==
    CASE fn = "command_model" -> command_model
      [] fn = "command_copy" -> command_copy
      [] fn = "command_code_copy" -> command_code_copy
      [] fn = "command_dump" -> command_dump
      [] fn = "command_reset" -> command_reset
      [] fn = "command_quit" -> command_quit
      [] fn = "command_help" -> command_help

\* The table holds one short and one long trigger for each of the seven
\* methods, no trigger twice, and the first match of each trigger is the
\* entry it was derived from
TableUnambiguous ==
    /\ Len(CommandTable) = 2 * Cardinality(CommandMethods)
    /\ Len(HelpTable) = Cardinality(CommandMethods)
    /\ \A i, j \in 1..Len(CommandTable) :
           i # j => CommandTable[i].trigger # CommandTable[j].trigger
    /\ \A i \in 1..Len(CommandTable) :
           Lookup(CommandTable[i].trigger) = CommandTable[i].fn
    /\ \A m \in CommandMethods :
           \E i \in 1..Len(HelpTable) :
               /\ HelpTable[i].fn = m
               /\ CommandTable[2 * i - 1] = HelpTable[i]
               /\ CommandTable[2 * i].fn = m
               /\ "command_" \o CommandTable[2 * i].trigger = m

\* C20: the derived trigger table is unambiguous: the seven short and the
\* seven long triggers are pairwise distinct, the first-match lookup of each
\* gives the method it was derived from, and typing the escape character and
\* any of the fourteen triggers runs that method.
C20_TriggersUnambiguous ==
    [][/\ TableUnambiguous
       /\ \A i \in 1..Len(CommandTable) :
              \/ ActionOf(CommandTable[i].fn)
              \/ ~chat_input(Escape \o CommandTable[i].trigger)]_vars

\* Help was shown after a code copy and a model switch
C20_Witness ==
    /\ console = <<"print", Escape \o "h">>
    /\ clipboard = "a" \o Newline
    /\ request # <<>>
    /\ request[1].model # model
    /\ pc = "awaiting"

-----------------------------------------------------------------------------
(* Specification of the extractor alone: a text is drawn, then extracted *)

ExtractInit ==
    /\ SessionInit
    /\ model = MODELS[1]
    /\ history = reset_history("2024-05-01")
    /\ doc \in Docs
    /\ s = Render(doc)
    /\ output = <<>>
    /\ xpc = "input"

Extract ==
    /\ xpc = "input"
    /\ output' = extract_code_blocks(s)
    /\ xpc' = "done"
    /\ UNCHANGED <<s, doc>>
    /\ UNCHANGED sessionVars

ExtractNext == Extract

SpecExtract == ExtractInit /\ [][ExtractNext]_vars

-----------------------------------------------------------------------------

\* C9: of a text with N well-formed fenced blocks the extractor returns
\* exactly N strings, in order of appearance, each the block's body lines
\* each followed by one newline; with no block it returns the empty sequence.
C9_WellFormedBlocks ==
    (xpc = "done" /\ doc.tail = <<>>) =>
        /\ Len(output) = NumBlocks(doc.segs)
        /\ output = ClosedBodies(doc.segs)

C9_Witness ==
    /\ xpc = "done"
    /\ doc.tail = <<>>
    /\ NumBlocks(doc.segs) = 2
    /\ Len(output) = 2
    /\ output[1] = ""
    /\ output[2] = Fence \o "py" \o Newline \o "a" \o Newline

\* C10: of a text whose last opening fence is never closed the extractor
\* returns exactly the blocks closed before it and never the unterminated
\* block's accumulated lines.
C10_UnterminatedDropped ==
    (xpc = "done" /\ doc.tail # <<>>) =>
        /\ Len(output) = NumBlocks(doc.segs)
        /\ output = ClosedBodies(doc.segs)

C10_Witness ==
    /\ xpc = "done"
    /\ doc.tail # <<>>
    /\ doc.tail[1].body = <<"a">>
    /\ NumBlocks(doc.segs) = 1
    /\ output = <<"a" \o Newline>>

-----------------------------------------------------------------------------

\* The structure d with every opening fence written without its tag
WithBareOpeners(d) ==
    LET bare(seg) == IF seg.kind = "text" THEN seg ELSE [seg EXCEPT !.line = Fence]
    IN  [segs |-> [i \in 1..Len(d.segs) |-> bare(d.segs[i])],
         tail |-> [i \in 1..Len(d.tail) |-> bare(d.tail[i])]]

\* The lines of the text of d once the tags are removed
BareLines(d) == DocLines(WithBareOpeners(d).segs \o WithBareOpeners(d).tail)

HasFenceLine(body) == \E j \in 1..Len(body) : startswith(body[j], Fence)

\* C18: the fences are asymmetric.  Outside a block a line that starts with
\* the fence opens one whatever follows the fence, and gives the body
\* nothing: the text with its tags removed from the opening fences has the
\* same blocks.  Inside a block a line that starts with the fence and goes
\* on is a body line like any other: it is in the block's string verbatim,
\* it ends no block and it opens none.
C18_FencesAsymmetric ==
    xpc = "done" =>
        /\ output = extract_loop(BareLines(doc), <<>>, <<>>)
        /\ \A i \in 1..Len(doc.segs) :
               (doc.segs[i].kind = "block" /\ HasFenceLine(doc.segs[i].body)) =>
                   LET k == NumBlocks(SubSeq(doc.segs, 1, i))
                   IN  /\ k <= Len(output)
                       /\ output[k] = BodyText(doc.segs[i].body)
        /\ Len(output) = NumBlocks(doc.segs)

\* One block, opened with a tag, whose first body line starts with the fence
C18_Witness ==
    /\ xpc = "done"
    /\ doc.tail = <<>>
    /\ Len(doc.segs) = 1
    /\ doc.segs[1].line = Fence \o "py"
    /\ doc.segs[1].body = <<Fence \o "py", "a">>
    /\ output = <<Fence \o "py" \o Newline \o "a" \o Newline>>

====
